---- MODULE Spec2Model ----
(***************************************************************************)
(* lightbulb/context/base.py: ResponseProxy and ApplicationContext.respond *)
(*                                                                         *)
(* One ApplicationContext is modelled together with the two coroutines     *)
(* that call respond() on it: the command body, which awaits each          *)
(* respond() before it makes the next one, and the task that __init__      *)
(* creates when the command has auto_defer set.  The interaction object    *)
(* (hikari) is the environment: every platform call is a suspension point  *)
(* and may return or raise.                                                *)
(*                                                                         *)
(* A second specification, ProxySpec, models one ResponseProxy on its own: *)
(* its constructor over every combination of arguments, and message()      *)
(* calls that may overlap.                                                 *)
(***************************************************************************)
EXTENDS Integers, Sequences, FiniteSets, TLC

VARIABLES
    ctx,        \* the ApplicationContext: "none" before __init__, then "built"
    auto_defer, \* self._command.auto_defer
    responses,  \* self._responses
    frames,     \* the respond() invocation of each task
    bodyCalls,  \* respond() calls the command body has made
    allocated,  \* respond() invocations started so far (names the objects they create)
    returned,   \* the proxies respond() has returned to its callers, in order
    proxy,      \* ProxySpec: the ResponseProxy under construction / constructed
    mcalls,     \* ProxySpec: the message() invocations on it
    fetches     \* ProxySpec: invocations of the fetcher made so far

ctxVars == <<ctx, auto_defer, responses, frames, bodyCalls, allocated, returned>>
proxyVars == <<proxy, mcalls, fetches>>
vars == <<ctx, auto_defer, responses, frames, bodyCalls, allocated, returned,
         proxy, mcalls, fetches>>

(***************************************************************************)
(* Bounds                                                                  *)
(***************************************************************************)
\* respond() calls the command body makes
MaxCalls == 3
\* message() calls made on the proxy of ProxySpec
MaxMessageCalls == 3

(***************************************************************************)
(* Values                                                                  *)
(***************************************************************************)
None == "None"

MESSAGE_CREATE == "ResponseType.MESSAGE_CREATE"
DEFERRED_MESSAGE_CREATE == "ResponseType.DEFERRED_MESSAGE_CREATE"
MESSAGE_UPDATE == "ResponseType.MESSAGE_UPDATE"
ResponseType == {MESSAGE_CREATE, DEFERRED_MESSAGE_CREATE, MESSAGE_UPDATE}

\* isinstance(x, hikari.ResponseType)
IsResponseType(x) == x \in ResponseType

\* Positional argument tuples the command body passes to respond()
ArgShapes ==
    { <<>>,
      <<"hello">>,
      <<DEFERRED_MESSAGE_CREATE>>,
      <<DEFERRED_MESSAGE_CREATE, "hello">>,
      <<"hello", "world">> }

\* Keyword arguments the command body passes, each with one value
KwValue ==
    [ content       |-> "kw_content",
      response_type |-> MESSAGE_UPDATE,
      reply         |-> "True",
      attachment    |-> "file.png" ]

KwShapes == { [k \in S |-> KwValue[k]] : S \in SUBSET (DOMAIN KwValue) }

NoKwargs == [k \in {} |-> None]

\* Errors a platform call may raise
Errors == {"NotFoundError", "ForbiddenError"}

\* The message the platform creates for respond() invocation n
MessageOf(n) == "message_" \o ToString(n)

Tasks == {"body", "defer"}

(***************************************************************************)
(* dict operations                                                         *)
(***************************************************************************)
\* kwargs.pop(key, None)
Pop(kwargs, key) == [k \in (DOMAIN kwargs) \ {key} |-> kwargs[k]]

\* kwargs[key] = value
SetItem(kwargs, key, value) ==
    [k \in (DOMAIN kwargs) \cup {key} |-> IF k = key THEN value ELSE kwargs[k]]

\* kwargs.setdefault(key, value)
SetDefault(kwargs, key, value) ==
    IF key \in DOMAIN kwargs THEN kwargs ELSE SetItem(kwargs, key, value)

(***************************************************************************)
(* ResponseProxy                                                           *)
(***************************************************************************)
\* Mutant: the check rejects everything but exactly one argument
ProxyArgsRejected_UnlessExactlyOne(message, fetcher) ==
    (message = None) = (fetcher = None)

\* ResponseProxy.__init__: the check that raises ValueError
ProxyArgsRejected(message, fetcher) == message = None /\ fetcher = None

\* ResponseProxy.__init__: the object built (id is the object's identity)
ResponseProxy(id, message, fetcher) ==
    [id |-> id, message |-> message, fetcher |-> fetcher]

\* ResponseProxy.message: whether the call returns self._message at once
MessageKnown(p) == p.message # None

\* Mutant: message() stores what it fetched (self._message = msg)
MessageAfterFetch_Memoized(p, msg) == msg

\* ResponseProxy.message: self._message after a fetch has returned msg
MessageAfterFetch(p, msg) == p.message

(***************************************************************************)
(* ApplicationContext.respond: argument handling                           *)
(***************************************************************************)
\* the three pops every call makes
PopReplyKeys(kwargs) == Pop(Pop(Pop(kwargs, "reply"), "mentions_reply"), "nonce")

\* the follow-up branch: what execute() is called with
FollowupArgs(args) ==
    IF args # <<>> /\ IsResponseType(args[1]) THEN Tail(args) ELSE args

FollowupKwargs(kwargs) == Pop(kwargs, "response_type")

\* the initial branch: what create_initial_response() is called with
InitialKwargs(args, kwargs) ==
    LET k1 == IF args = <<>> THEN kwargs
              ELSE IF ~IsResponseType(args[1])
                   THEN SetDefault(SetItem(kwargs, "content", args[1]),
                                   "response_type", MESSAGE_CREATE)
                   ELSE LET k == SetItem(kwargs, "response_type", args[1])
                        IN  IF Len(args) > 1
                            THEN SetDefault(k, "content", args[2])
                            ELSE k
    IN  Pop(Pop(k1, "attachment"), "attachments")

\* Mutant: the branch is taken from the second entry on
IsFollowup_FromSecondEntry(resp) == Len(resp) > 1

\* the branch taken: `if self._responses`
IsFollowup(resp) == resp # <<>>

\* the platform call respond() makes, given the history it finds
PlatformCall(resp, args, kwargs) ==
    IF IsFollowup(resp)
    THEN [op |-> "execute",
          args |-> FollowupArgs(args),
          kwargs |-> FollowupKwargs(PopReplyKeys(kwargs))]
    ELSE [op |-> "create_initial_response",
          args |-> <<>>,
          kwargs |-> InitialKwargs(args, PopReplyKeys(kwargs))]

\* the proxy respond() builds from what the platform call returned
ProxyFor(id, op, value) ==
    IF op = "execute"
    THEN ResponseProxy(id, value, None)
    ELSE ResponseProxy(id, None, "fetch_initial_response")

\* Mutant: the proxy is put in front (insert(0, proxy))
Appended_InFront(resp, p) == <<p>> \o resp

\* self._responses.append(proxy)
Appended(resp, p) == Append(resp, p)

\* Mutant: respond() returns self._responses[0]
Last_First(resp) == resp[1]

\* self._responses[-1]
Last(resp) == resp[Len(resp)]

\* Context.previous_response
previous_response == IF responses # <<>> THEN Last(responses) ELSE None

(***************************************************************************)
(* Frames: one respond() invocation of a task                              *)
(***************************************************************************)
\* st: where the invocation is; n: its number; args, kwargs: its arguments;
\* call: the platform call it makes; invoked: platform calls made; reply: the
\* platform's answer; result: the id of the proxy returned; error: the error raised
NoReply == [ok |-> FALSE, value |-> None]

NoFrame(st) ==
    [st |-> st, n |-> 0, args |-> <<>>, kwargs |-> NoKwargs,
     call |-> [op |-> None, args |-> <<>>, kwargs |-> NoKwargs],
     invoked |-> 0, reply |-> NoReply, result |-> 0, error |-> None]

\* respond() runs from its first line to its `await`
Started(n, args, kwargs) ==
    [st |-> "awaiting", n |-> n, args |-> args, kwargs |-> kwargs,
     call |-> PlatformCall(responses, args, kwargs),
     invoked |-> 1, reply |-> NoReply, result |-> 0, error |-> None]

\* what the platform may answer to a call: a value, or an error
Replies(f) ==
    { [ok |-> TRUE,
       value |-> IF f.call.op = "execute" THEN MessageOf(f.n) ELSE None] }
    \cup { [ok |-> FALSE, value |-> e] : e \in Errors }

(***************************************************************************)
(* Initial state                                                           *)
(***************************************************************************)
CtxInit ==
    /\ ctx = "none"
    /\ auto_defer = FALSE
    /\ responses = <<>>
    /\ frames = [t \in Tasks |-> NoFrame("idle")]
    /\ bodyCalls = 0
    /\ allocated = 0
    /\ returned = <<>>

NoProxy ==
    [st |-> "none", argMessage |-> None, argFetcher |-> None,
     message |-> None, fetcher |-> None, error |-> None]

ProxyInit ==
    /\ proxy = NoProxy
    /\ mcalls = [i \in 1..MaxMessageCalls |-> [st |-> "idle", value |-> None]]
    /\ fetches = 0

Init == CtxInit /\ ProxyInit

(***************************************************************************)
(* ApplicationContext                                                      *)
(***************************************************************************)
\* Mutant: the task is created whatever auto_defer says
DeferFrame_Unconditional(flag) ==
    [NoFrame("scheduled") EXCEPT !.args = <<DEFERRED_MESSAGE_CREATE>>]

\* ApplicationContext.__init__: the task it creates when auto_defer is set,
\* asyncio.create_task(self.respond(hikari.ResponseType.DEFERRED_MESSAGE_CREATE))
DeferFrame(flag) ==
    IF flag
    THEN [NoFrame("scheduled") EXCEPT !.args = <<DEFERRED_MESSAGE_CREATE>>]
    ELSE NoFrame("idle")

\* ApplicationContext.__init__
Construct(flag) ==
    /\ ctx = "none"
    /\ ctx' = "built"
    /\ auto_defer' = flag
    /\ responses' = <<>>
    /\ frames' = [frames EXCEPT !["defer"] = DeferFrame(flag)]
    /\ UNCHANGED <<bodyCalls, allocated, returned, proxyVars>>

\* the command body calls respond(*args, **kwargs)
BodyRespond(args, kwargs) ==
    /\ ctx = "built"
    /\ frames["body"].st \in {"idle", "returned", "raised"}
    /\ bodyCalls < MaxCalls
    /\ bodyCalls' = bodyCalls + 1
    /\ allocated' = allocated + 1
    /\ frames' = [frames EXCEPT !["body"] = Started(allocated + 1, args, kwargs)]
    /\ UNCHANGED <<ctx, auto_defer, responses, returned, proxyVars>>

\* the event loop runs the task created by __init__
DeferRun ==
    /\ frames["defer"].st = "scheduled"
    /\ allocated' = allocated + 1
    /\ frames' = [frames EXCEPT !["defer"] =
                    Started(allocated + 1, frames["defer"].args, frames["defer"].kwargs)]
    /\ UNCHANGED <<ctx, auto_defer, responses, bodyCalls, returned, proxyVars>>

\* the platform call of task t completes
PlatformReply(t, r) ==
    /\ frames[t].st = "awaiting"
    /\ r \in Replies(frames[t])
    /\ frames' = [frames EXCEPT ![t].st = "ready", ![t].reply = r]
    /\ UNCHANGED <<ctx, auto_defer, responses, bodyCalls, allocated, returned, proxyVars>>

\* the frame of a respond() that has returned or raised: its locals are gone
Finished(f, st, result, error) ==
    [NoFrame(st) EXCEPT !.n = f.n, !.call.op = f.call.op, !.invoked = f.invoked,
                        !.result = result, !.error = error]

\* Mutant: a failed platform call is swallowed and a proxy appended all the same
Resumed_Swallowing(f, resp) ==
    LET new == Appended(resp, ProxyFor(f.n, f.call.op, None))
    IN  [responses |-> new, frame |-> Finished(f, "returned", Last(new).id, None)]

\* respond() resumes after its await with the platform's answer: append the
\* proxy and return the last entry, or let the error propagate
Resumed(f, resp) ==
    IF f.reply.ok
    THEN LET new == Appended(resp, ProxyFor(f.n, f.call.op, f.reply.value))
         IN  [responses |-> new, frame |-> Finished(f, "returned", Last(new).id, None)]
    ELSE [responses |-> resp, frame |-> Finished(f, "raised", 0, f.reply.value)]

\* respond() of task t resumes
RespondResume(t) ==
    /\ frames[t].st = "ready"
    /\ LET r == Resumed(frames[t], responses)
       IN  /\ responses' = r.responses
           /\ frames' = [frames EXCEPT ![t] = r.frame]
           /\ returned' = IF r.frame.st = "returned"
                          THEN Append(returned, r.frame.result)
                          ELSE returned
    /\ UNCHANGED <<ctx, auto_defer, bodyCalls, allocated, proxyVars>>

Next ==
    \/ \E flag \in BOOLEAN : Construct(flag)
    \/ \E args \in ArgShapes, kwargs \in KwShapes : BodyRespond(args, kwargs)
    \/ DeferRun
    \/ \E t \in Tasks : \E r \in Replies(frames[t]) : PlatformReply(t, r)
    \/ \E t \in Tasks : RespondResume(t)

Spec == Init /\ [][Next]_vars

\* asyncio runs a task created with create_task
FairSpec == Spec /\ WF_vars(DeferRun)

(***************************************************************************)
(* ResponseProxy on its own                                                *)
(***************************************************************************)
\* Arguments ResponseProxy() is constructed with
MessageArgs == {None, "message_0"}
FetcherArgs == {None, "fetcher"}

\* What an invocation of the fetcher may produce: a message, or an error
FetchedMessages == {"fetched_a", "fetched_b"}

FetchReplies ==
    { [ok |-> TRUE, value |-> m] : m \in FetchedMessages }
    \cup { [ok |-> FALSE, value |-> e] : e \in Errors }

\* ResponseProxy(message, fetcher)
ProxyConstruct(message, fetcher) ==
    /\ proxy.st = "none"
    /\ proxy' =
         IF ProxyArgsRejected(message, fetcher)
         THEN [NoProxy EXCEPT !.st = "raised", !.error = "ValueError",
                              !.argMessage = message, !.argFetcher = fetcher]
         ELSE [NoProxy EXCEPT !.st = "ok",
                              !.argMessage = message, !.argFetcher = fetcher,
                              !.message = ResponseProxy(0, message, fetcher).message,
                              !.fetcher = ResponseProxy(0, message, fetcher).fetcher]
    /\ UNCHANGED <<mcalls, fetches, ctxVars>>

\* message() call i runs to its return, or to `await self._fetcher()`
MessageCall(i) ==
    /\ proxy.st = "ok"
    /\ mcalls[i].st = "idle"
    /\ i > 1 => mcalls[i - 1].st # "idle"
    /\ IF MessageKnown(proxy)
       THEN /\ mcalls' = [mcalls EXCEPT ![i] = [st |-> "returned", value |-> proxy.message]]
            /\ fetches' = fetches
       ELSE IF proxy.fetcher = None
       THEN /\ mcalls' = [mcalls EXCEPT ![i] = [st |-> "raised", value |-> "AssertionError"]]
            /\ fetches' = fetches
       ELSE /\ mcalls' = [mcalls EXCEPT ![i] = [st |-> "awaiting", value |-> None]]
            /\ fetches' = fetches + 1
    /\ UNCHANGED <<proxy, ctxVars>>

\* the fetcher invoked by message() call i completes
FetcherReply(i, r) ==
    /\ mcalls[i].st = "awaiting"
    /\ mcalls' = [mcalls EXCEPT ![i] = [st |-> IF r.ok THEN "fetched" ELSE "failed",
                                        value |-> r.value]]
    /\ UNCHANGED <<proxy, fetches, ctxVars>>

\* message() call i resumes: `return msg`, or the fetcher's error propagates
MessageResume(i) ==
    /\ mcalls[i].st \in {"fetched", "failed"}
    /\ IF mcalls[i].st = "fetched"
       THEN /\ mcalls' = [mcalls EXCEPT ![i].st = "returned"]
            /\ proxy' = [proxy EXCEPT !.message = MessageAfterFetch(proxy, mcalls[i].value)]
       ELSE /\ mcalls' = [mcalls EXCEPT ![i].st = "raised"]
            /\ proxy' = proxy
    /\ UNCHANGED <<fetches, ctxVars>>

ProxyNext ==
    \/ \E message \in MessageArgs, fetcher \in FetcherArgs : ProxyConstruct(message, fetcher)
    \/ \E i \in 1..MaxMessageCalls : MessageCall(i)
    \/ \E i \in 1..MaxMessageCalls : \E r \in FetchReplies : FetcherReply(i, r)
    \/ \E i \in 1..MaxMessageCalls : MessageResume(i)

ProxySpec == Init /\ [][ProxyNext]_vars

(***************************************************************************)
(* Properties                                                              *)
(***************************************************************************)
\* Steps of respond(): task t starts a respond(), or resumes one
Starts(t) ==
    frames[t].st \in {"idle", "scheduled", "returned", "raised"} /\ frames'[t].st = "awaiting"

Succeeds(t) == frames[t].st = "ready" /\ frames[t].reply.ok /\ frames'[t].st # "ready"

Fails(t) == frames[t].st = "ready" /\ ~frames[t].reply.ok /\ frames'[t].st # "ready"

FetcherBacked(p) == p.message = None /\ p.fetcher = "fetch_initial_response"

StartedCalls == {i \in 1..MaxMessageCalls : mcalls[i].st # "idle"}

\* C1 as stated: the fetcher of a proxy is invoked at most once in the proxy's
\* lifetime, however many message() calls are made.
C1_FetchedAtMostOnce == fetches <= 1

\* C1 as amended: nothing is cached.  A proxy's message is what it was
\* constructed with; on a proxy that holds no message every message() call
\* invokes the fetcher once (n calls started, n invocations) and returns what
\* its own invocation produced; a proxy that holds a message never invokes the
\* fetcher and every call returns that message.
C1_EveryCallFetches ==
    proxy.st = "ok" =>
        /\ proxy.message = proxy.argMessage
        /\ fetches = IF proxy.argMessage = None THEN Cardinality(StartedCalls) ELSE 0
        /\ \A i \in StartedCalls :
              IF proxy.argMessage # None
              THEN mcalls[i].st = "returned" /\ mcalls[i].value = proxy.argMessage
              ELSE mcalls[i].st = "returned" => mcalls[i].value \in FetchedMessages

\* Two message() calls on a fetcher-only proxy have returned, after two fetches.
C1_Witness ==
    /\ proxy.st = "ok" /\ proxy.argMessage = None
    /\ mcalls[1].st = "returned" /\ mcalls[2].st = "returned"
    /\ fetches >= 2

\* C2 as stated: construction succeeds if and only if exactly one of message
\* and fetcher is supplied.
C2_ExactlyOneSupplied ==
    proxy.st # "none" =>
        (proxy.st = "ok" <=> ((proxy.argMessage = None) # (proxy.argFetcher = None)))

\* C2 as amended: construction fails, with ValueError, if and only if neither
\* message nor fetcher is supplied; with one or with both supplied it succeeds
\* and the proxy holds the arguments.
C2_AtLeastOneSupplied ==
    proxy.st # "none" =>
        /\ proxy.st = "raised" <=> (proxy.argMessage = None /\ proxy.argFetcher = None)
        /\ proxy.st = "raised" => proxy.error = "ValueError"
        /\ proxy.st = "ok" =>
              proxy.message = proxy.argMessage /\ proxy.fetcher = proxy.argFetcher

\* A proxy was constructed with both a message and a fetcher.
C2_Witness ==
    proxy.st = "ok" /\ proxy.argMessage # None /\ proxy.argFetcher # None

\* C3: a respond() that finds the history empty calls create_initial_response
\* (and only that), and when it succeeds it appends one fetcher-backed proxy,
\* taking the history from length 0 to length 1.
C3_Step ==
    \A t \in Tasks :
        /\ (Starts(t) /\ responses = <<>>) =>
              frames'[t].call.op = "create_initial_response" /\ frames'[t].invoked = 1
        /\ (Succeeds(t) /\ frames[t].call.op = "create_initial_response") =>
              /\ Len(responses) = 0
              /\ Len(responses') = 1
              /\ FetcherBacked(responses'[1])

\* C3: every step of respond() that finds or found the history empty is a C3_Step.
C3_InitialResponse == [][C3_Step]_vars

\* C4: a respond() that finds the history non-empty calls execute (and only
\* that), and when it succeeds it appends one proxy holding the message that
\* execute returned and no fetcher; a non-empty history stays non-empty.
C4_Step ==
    /\ \A t \in Tasks :
        /\ (Starts(t) /\ responses # <<>>) =>
              frames'[t].call.op = "execute" /\ frames'[t].invoked = 1
        /\ (Succeeds(t) /\ frames[t].call.op = "execute") =>
              /\ frames[t].reply.value = MessageOf(frames[t].n)
              /\ responses' = Append(responses,
                                [id |-> frames[t].n,
                                 message |-> frames[t].reply.value,
                                 fetcher |-> None])
    /\ responses # <<>> => responses' # <<>>

\* C4: every step is a C4_Step: follow-up calls use execute and the history stays non-empty.
C4_Followup == [][C4_Step]_vars

\* The body's respond() returned through execute, as the second entry or later.
C4_Witness ==
    /\ frames["body"].st = "returned"
    /\ frames["body"].call.op = "execute"
    /\ Len(responses) >= 2
    /\ Last(responses).fetcher = None

\* Whether the caller of respond(*args, **kwargs) gave a response type
TypeGiven(args, kwargs) ==
    (args # <<>> /\ IsResponseType(args[1])) \/ "response_type" \in DOMAIN kwargs

\* C5: create_initial_response is called with response_type MESSAGE_CREATE
\* whenever the caller gave no response type, whatever the shape of the
\* arguments, and with the caller's response type when one was given.
C5_DefaultResponseType ==
    \A t \in Tasks :
        (frames[t].st = "awaiting" /\ frames[t].call.op = "create_initial_response") =>
            /\ "response_type" \in DOMAIN frames[t].call.kwargs
            /\ ~TypeGiven(frames[t].args, frames[t].kwargs) =>
                  frames[t].call.kwargs["response_type"] = MESSAGE_CREATE
            /\ TypeGiven(frames[t].args, frames[t].kwargs) =>
                  frames[t].call.kwargs["response_type"]
                      \in {DEFERRED_MESSAGE_CREATE, MESSAGE_UPDATE}

\* C6: the proxy a respond() returns is the one it has just appended: when it
\* returns, that proxy is the last entry of responses and is previous_response.
C6_Step ==
    \A t \in Tasks :
        Succeeds(t) =>
            /\ frames'[t].st = "returned"
            /\ Len(responses') = Len(responses) + 1
            /\ responses'[Len(responses')].id = frames[t].n
            /\ frames'[t].result = frames[t].n
            /\ previous_response' = responses'[Len(responses')]
            /\ returned'[Len(returned')] = frames[t].n

\* C6: every step in which a respond() returns is a C6_Step.
C6_ReturnsAppended == [][C6_Step]_vars

\* The body's respond() has returned its proxy while the auto-defer respond()
\* is still in flight.
C6_Witness ==
    /\ frames["body"].st = "returned"
    /\ frames["defer"].st \in {"awaiting", "ready"}
    /\ previous_response.id = frames["body"].result

\* C7: when the platform call fails, respond() raises that error, has made the
\* one platform call only, and leaves the history as it was; while the history
\* is empty the next respond() calls create_initial_response again.
C7_Step ==
    \A t \in Tasks :
        /\ Fails(t) =>
              /\ frames'[t].st = "raised"
              /\ frames'[t].error = frames[t].reply.value
              /\ frames'[t].error \in Errors
              /\ frames'[t].invoked = 1
              /\ responses' = responses
              /\ returned' = returned
        /\ (frames[t].st = "raised" /\ Starts(t) /\ responses = <<>>) =>
              frames'[t].call.op = "create_initial_response"

\* C7: every step in which a platform call's failure resumes respond() is a C7_Step.
C7_FailurePropagates == [][C7_Step]_vars

\* The initial response failed, the history is empty, and the body is making
\* its next call through create_initial_response.
C7_Witness ==
    /\ bodyCalls = 2
    /\ frames["body"].st = "awaiting"
    /\ frames["body"].call.op = "create_initial_response"
    /\ responses = <<>>
    /\ ~auto_defer

\* C8: __init__ makes no platform call and leaves the history empty; with
\* auto_defer it leaves a scheduled respond(DEFERRED_MESSAGE_CREATE), which
\* eventually runs and, finding the history empty, calls
\* create_initial_response with that response type and no content; without
\* auto_defer no respond() is ever scheduled.
C8_Step ==
    /\ (ctx = "none" /\ ctx' = "built") =>
          /\ responses' = <<>>
          /\ \A t \in Tasks : frames'[t].invoked = 0
          /\ frames'["body"].st = "idle"
          /\ frames'["defer"].st = IF auto_defer' THEN "scheduled" ELSE "idle"
    /\ (Starts("defer") /\ responses = <<>>) =>
          /\ frames'["defer"].call.op = "create_initial_response"
          /\ frames'["defer"].call.kwargs =
                [k \in {"response_type"} |-> DEFERRED_MESSAGE_CREATE]

\* C8: the constructor's step and the task's first step are C8_Steps, no task
\* exists without auto_defer, and a scheduled task eventually makes its call.
C8_AutoDefer ==
    /\ [][C8_Step]_vars
    /\ [](~auto_defer => frames["defer"].st = "idle")
    /\ (frames["defer"].st = "scheduled") ~> (frames["defer"].invoked = 1)

\* The auto-defer task has called create_initial_response before the body
\* responded.
C8_Witness ==
    /\ auto_defer
    /\ frames["defer"].st = "awaiting"
    /\ frames["defer"].call.op = "create_initial_response"
    /\ bodyCalls = 0

\* Successful create_initial_response calls: those whose proxy is in the
\* history and those whose respond() has not resumed yet
InitialResponses ==
    Cardinality({i \in DOMAIN responses : FetcherBacked(responses[i])})
    + Cardinality({t \in Tasks : /\ frames[t].st = "ready"
                                 /\ frames[t].call.op = "create_initial_response"
                                 /\ frames[t].reply.ok})

\* C9: with the auto-defer task and the body interleaved, at most one
\* create_initial_response succeeds for the context and at most one entry of
\* the history is fetcher-backed.
C9_OneInitialResponse == InitialResponses <= 1

\* C10: the history is append-only.  A successful respond() adds its proxy at
\* the end, a failed one adds nothing, no other step touches the history, and
\* the i-th entry is the proxy returned by the i-th successful call.
C10_Step ==
    /\ Len(responses') >= Len(responses)
    /\ SubSeq(responses', 1, Len(responses)) = responses
    /\ \A t \in Tasks :
          /\ Succeeds(t) => responses' = Append(responses, Last(responses'))
          /\ Fails(t) => responses' = responses
    /\ (\A t \in Tasks : ~Succeeds(t)) => responses' = responses
    /\ Len(returned') = Len(responses')
    /\ \A i \in DOMAIN responses' : responses'[i].id = returned'[i]

\* C10: every step leaves the history a prefix of what it becomes (C10_Step).
C10_AppendOnly == [][C10_Step]_vars

\* Three responses are in the history and the body's last call failed.
C10_Witness ==
    /\ Len(responses) >= 3
    /\ frames["body"].st = "raised"

====
